---------------------------- MODULE Spec2Model ----------------------------
(***************************************************************************)
(* Anonymous message relay (src/api/index.js): HMAC-signed session tokens, *)
(* an in-memory session table, an ended-set and per-session message        *)
(* queues, driven by the express handlers create / end / status / submit / *)
(* poll.  Every handler body is synchronous (no await, no callback), so    *)
(* under Node's run-to-completion event loop each request is one atomic    *)
(* step.                                                                   *)
(*                                                                         *)
(* Strings are sequences of one-character strings, so that split('_'),     *)
(* base64, parseInt and trim are computed rather than assumed.             *)
(***************************************************************************)
EXTENDS Integers, Sequences, FiniteSets, TLC

(***************************************************************************)
(* Characters                                                              *)
(***************************************************************************)

\* Printable ASCII, codes 32..126, in code order (code 96 is spelled out).
Ascii ==
  << " ", "!", "\"", "#", "$", "%", "&", "'", "(", ")", "*", "+", ",", "-", ".", "/",
     "0", "1", "2", "3", "4", "5", "6", "7", "8", "9", ":", ";", "<", "=", ">", "?",
     "@", "A", "B", "C", "D", "E", "F", "G", "H", "I", "J", "K", "L", "M", "N", "O",
     "P", "Q", "R", "S", "T", "U", "V", "W", "X", "Y", "Z", "[", "\\", "]", "^", "_",
     "<grave>", "a", "b", "c", "d", "e", "f", "g", "h", "i", "j", "k", "l", "m", "n", "o",
     "p", "q", "r", "s", "t", "u", "v", "w", "x", "y", "z", "{", "|", "}", "~" >>

\* What toString('utf-8') yields for a byte outside printable ASCII: some
\* character that is none of the above (U+FFFD for an invalid sequence).
Replacement == "<U+FFFD>"

\* The byte of a character (Buffer.from(str): UTF-8, one byte per ASCII char).
CodeOf(c) ==
  IF \E i \in 1..95 : Ascii[i] = c
    THEN (CHOOSE i \in 1..95 : Ascii[i] = c) + 31
    ELSE 253

\* The character of a byte (buf.toString('utf-8')).
CharOf(b) == IF b \in 32..126 THEN Ascii[b - 31] ELSE Replacement

Digits == <<"0", "1", "2", "3", "4", "5", "6", "7", "8", "9">>

HexDigits ==
  <<"0", "1", "2", "3", "4", "5", "6", "7", "8", "9", "a", "b", "c", "d", "e", "f">>

IsDigit(c) == \E i \in 1..10 : Digits[i] = c

DigitValue(c) == (CHOOSE i \in 1..10 : Digits[i] = c) - 1

\* The white space String.prototype.trim and parseInt strip (space only,
\* among the characters of the table).
IsSpace(c) == c = " "

(***************************************************************************)
(* JavaScript values of createdAt: a number, a string, NaN or undefined.   *)
(***************************************************************************)

JsNumber(n) == [kind |-> "number", num |-> n, str |-> <<>>]

JsString(s) == [kind |-> "string", num |-> 0, str |-> s]

JsNaN == [kind |-> "NaN", num |-> 0, str |-> <<>>]

JsUndefined == [kind |-> "undefined", num |-> 0, str |-> <<>>]

\* JavaScript truthiness, as `createdAt || Date.now()` reads it.
Truthy(v) ==
  CASE v.kind = "number" -> v.num # 0
    [] v.kind = "string" -> v.str # <<>>
    [] OTHER -> FALSE

RECURSIVE ToDecimal(_)
\* Number.prototype.toString for a non-negative integer.
ToDecimal(n) ==
  IF n < 10 THEN <<Digits[n + 1]>>
  ELSE ToDecimal(n \div 10) \o <<Digits[(n % 10) + 1]>>

\* `${v}`: the string a template literal makes of a value.
ToStr(v) ==
  CASE v.kind = "number" ->
         IF v.num < 0 THEN <<"-">> \o ToDecimal(0 - v.num) ELSE ToDecimal(v.num)
    [] v.kind = "string" -> v.str
    [] v.kind = "NaN" -> <<"N", "a", "N">>
    [] OTHER -> <<"u", "n", "d", "e", "f", "i", "n", "e", "d">>

RECURSIVE SkipSpaces(_)
SkipSpaces(s) ==
  IF s # <<>> /\ IsSpace(Head(s)) THEN SkipSpaces(Tail(s)) ELSE s

RECURSIVE LeadingDigits(_)
LeadingDigits(s) ==
  IF s # <<>> /\ IsDigit(Head(s)) THEN <<Head(s)>> \o LeadingDigits(Tail(s))
  ELSE <<>>

RECURSIVE DecimalValue(_)
DecimalValue(ds) ==
  IF ds = <<>> THEN 0
  ELSE 10 * DecimalValue(SubSeq(ds, 1, Len(ds) - 1)) + DigitValue(ds[Len(ds)])

ParseDigits(neg, ds) ==
  IF ds = <<>> THEN JsNaN
  ELSE IF neg THEN JsNumber(0 - DecimalValue(ds)) ELSE JsNumber(DecimalValue(ds))

ParseSigned(t) ==
  IF t # <<>> /\ Head(t) \in {"-", "+"}
    THEN ParseDigits(Head(t) = "-", LeadingDigits(Tail(t)))
    ELSE ParseDigits(FALSE, LeadingDigits(t))

\* parseInt(s): leading white space, an optional sign, then the longest run
\* of decimal digits; NaN when there is none.
ParseInt(s) == ParseSigned(SkipSpaces(s))

\* parseInt applied to a value: a number is first converted to a string.
ParseIntOf(v) == ParseInt(ToStr(v))

(***************************************************************************)
(* String helpers                                                          *)
(***************************************************************************)

\* String.prototype.indexOf for a character that occurs in the string.
IndexOf(s, sep) ==
  CHOOSE j \in DOMAIN s : s[j] = sep /\ \A k \in 1..(j - 1) : s[k] # sep

RECURSIVE Split(_, _)
SplitAt(s, sep, i) == <<SubSeq(s, 1, i - 1)>> \o Split(SubSeq(s, i + 1, Len(s)), sep)

\* String.prototype.split(sep) for a one-character separator.
Split(s, sep) ==
  IF \E i \in DOMAIN s : s[i] = sep THEN SplitAt(s, sep, IndexOf(s, sep)) ELSE <<s>>

RECURSIVE TrimEnd(_)
TrimEnd(s) ==
  IF s # <<>> /\ IsSpace(s[Len(s)]) THEN TrimEnd(SubSeq(s, 1, Len(s) - 1)) ELSE s

\* String.prototype.trim.
Trim(s) == TrimEnd(SkipSpaces(s))

(***************************************************************************)
(* Base64 (Buffer.from(x).toString('base64'), Buffer.from(x, 'base64'))   *)
(***************************************************************************)

B64Alphabet ==
  << "A", "B", "C", "D", "E", "F", "G", "H", "I", "J", "K", "L", "M", "N", "O", "P",
     "Q", "R", "S", "T", "U", "V", "W", "X", "Y", "Z", "a", "b", "c", "d", "e", "f",
     "g", "h", "i", "j", "k", "l", "m", "n", "o", "p", "q", "r", "s", "t", "u", "v",
     "w", "x", "y", "z", "0", "1", "2", "3", "4", "5", "6", "7", "8", "9", "+", "/" >>

B64Char(n) == B64Alphabet[n + 1]

\* Node's decoder also reads the URL-safe '-' and '_'; anything else is
\* illegal (-1).
B64Index(c) ==
  IF \E i \in 1..64 : B64Alphabet[i] = c
    THEN (CHOOSE i \in 1..64 : B64Alphabet[i] = c) - 1
    ELSE IF c = "-" THEN 62 ELSE IF c = "_" THEN 63 ELSE -1

RECURSIVE EncodeBytes(_)
EncodeBytes(bs) ==
  IF bs = <<>> THEN <<>>
  ELSE IF Len(bs) = 1 THEN
    <<B64Char(bs[1] \div 4), B64Char((bs[1] % 4) * 16), "=", "=">>
  ELSE IF Len(bs) = 2 THEN
    <<B64Char(bs[1] \div 4),
      B64Char((bs[1] % 4) * 16 + bs[2] \div 16),
      B64Char((bs[2] % 16) * 4), "=">>
  ELSE
    <<B64Char(bs[1] \div 4),
      B64Char((bs[1] % 4) * 16 + bs[2] \div 16),
      B64Char((bs[2] % 16) * 4 + bs[3] \div 64),
      B64Char(bs[3] % 64)>> \o EncodeBytes(SubSeq(bs, 4, Len(bs)))

\* Buffer.from(str): the bytes of a string.
BytesOf(s) == [i \in DOMAIN s |-> CodeOf(s[i])]

\* Buffer.from(str).toString('base64')
Base64Encode(s) == EncodeBytes(BytesOf(s))

Legal(n) == IF n >= 0 THEN <<n>> ELSE <<>>

RECURSIVE Sextets(_)
\* The legal characters up to the first '=': Node's decoder skips an illegal
\* character and stops at the padding; it never throws.
Sextets(s) ==
  IF s = <<>> \/ Head(s) = "=" THEN <<>>
  ELSE Legal(B64Index(Head(s))) \o Sextets(Tail(s))

RECURSIVE DecodeSextets(_)
DecodeSextets(x) ==
  IF Len(x) < 2 THEN <<>>
  ELSE IF Len(x) = 2 THEN <<x[1] * 4 + x[2] \div 16>>
  ELSE IF Len(x) = 3 THEN
    <<x[1] * 4 + x[2] \div 16, (x[2] % 16) * 16 + x[3] \div 4>>
  ELSE
    <<x[1] * 4 + x[2] \div 16,
      (x[2] % 16) * 16 + x[3] \div 4,
      (x[3] % 4) * 64 + x[4]>> \o DecodeSextets(SubSeq(x, 5, Len(x)))

\* buf.toString('utf-8')
CharsOf(bs) == [i \in DOMAIN bs |-> CharOf(bs[i])]

\* Buffer.from(str, 'base64').toString('utf-8')
Base64Decode(s) == CharsOf(DecodeSextets(Sextets(s)))

(***************************************************************************)
(* Signature Engine and Token Codec                                        *)
(***************************************************************************)

HexByte(b) == <<HexDigits[(b \div 16) + 1], HexDigits[(b % 16) + 1]>>

RECURSIVE HexOf(_)
HexOf(s) == IF s = <<>> THEN <<>> ELSE HexByte(CodeOf(Head(s))) \o HexOf(Tail(s))

\* crypto.createHmac('sha256', SECRET_KEY).update(data).digest('hex'),
\* idealised: a deterministic keyed function into hex strings that maps
\* different data to different digests (here the hex spelling of the data;
\* the truncation to 16 characters is not modelled).
Hmac(data) == HexOf(data)

\* generateSignature: the data is `${sessionId}:${groupJid}:${createdAt}`.
generateSignature(sessionId, groupJid, createdAt) ==
  Hmac(sessionId \o <<":">> \o groupJid \o <<":">> \o ToStr(createdAt))

\* `${sessionId}_${groupJidEncoded}_${timestamp}_${signature}`
EncodeToken(sessionId, groupJid, timestamp) ==
  sessionId \o <<"_">> \o Base64Encode(groupJid) \o <<"_">> \o ToStr(timestamp)
    \o <<"_">> \o generateSignature(sessionId, groupJid, timestamp)

\* The result of validateSessionToken: null, or {sessionId, groupJid, createdAt}.
Null == [valid |-> FALSE, sessionId |-> <<>>, groupJid |-> <<>>, createdAt |-> JsNaN]

SessionData(sessionId, groupJid, createdAt) ==
  [valid |-> TRUE, sessionId |-> sessionId, groupJid |-> groupJid,
   createdAt |-> createdAt]

\* The part of validateSessionToken that reads the token alone: split,
\* field count, base64 and signature.  createdAt is still the token's string.
CheckSignature(sessionId, groupJid, createdAt, signature) ==
  IF signature # generateSignature(sessionId, groupJid, JsString(createdAt)) THEN Null
  ELSE SessionData(sessionId, groupJid, JsString(createdAt))

DecodeParts(parts) ==
  IF Len(parts) # 4 THEN Null
  ELSE CheckSignature(parts[1], Base64Decode(parts[2]), parts[3], parts[4])

DecodeToken(token) == DecodeParts(Split(token, "_"))

\* const TWENTY_MINUTES = 20 * 60 * 1000
TWENTY_MINUTES == 20 * 60 * 1000

\* The first instant of the model's clock, and how far it runs.
Epoch == 1000000

MaxTicks == 3

\* The clock advances in steps of half the token lifetime.
TickMs == TWENTY_MINUTES \div 2

\* The most messages one session accepts in the model.
MaxMessages == 2

MaxMessageLength == 1000

(***************************************************************************)
(* Requests of the model                                                   *)
(***************************************************************************)

\* The instants the clock takes.
Times == {Epoch + k * TickMs : k \in 0..MaxTicks}

\* The last character of a string replaced by another one.
Garbled(s) == [s EXCEPT ![Len(s)] = IF s[Len(s)] = "0" THEN "1" ELSE "0"]

\* A token with one more field, and one with one field less.
WithExtraField(tk) == tk \o <<"_", "0">>

Rejoined(parts, suffix) ==
  parts[1] \o <<"_">> \o parts[2] \o <<"_">> \o parts[3] \o suffix

WithoutSignature(tk) == Rejoined(Split(tk, "_"), <<>>)

RECURSIVE Unpadded(_)
\* A token with the padding of its base64 field removed.
Unpadded(tk) ==
  IF tk = <<>> THEN <<>>
  ELSE IF Head(tk) = "=" THEN Unpadded(Tail(tk))
  ELSE <<Head(tk)>> \o Unpadded(Tail(tk))

\* A token with a digit appended to its createdAt field.
Redated(parts) == Rejoined(parts, <<"0", "_">> \o parts[4])

Postdated(tk) == Redated(Split(tk, "_"))

\* Spec: two sessions, one of them created for either of two groups, the
\* clock standing still.
S1 == <<"s", "1">>

S2 == <<"s", "2">>

G1 == <<"g", "1">>

G2 == <<"g", "2">>

SessionIds == {S1, S2}

\* createdAt absent: the server's clock is used.  One request lacks its
\* sessionId.
CreateRequests ==
  {<<S1, G1, JsUndefined>>, <<S1, G2, JsUndefined>>, <<S2, G1, JsUndefined>>,
   <<<<>>, G1, JsUndefined>>}

\* The tokens create can have issued for these sessions, in this process or
\* in one before it (the secret is the same), one of them with its signature
\* altered, and the empty token.
Tokens ==
  {EncodeToken(S1, G1, JsNumber(Epoch)), EncodeToken(S1, G2, JsNumber(Epoch)),
   EncodeToken(S2, G1, JsNumber(Epoch))}
    \cup {Garbled(EncodeToken(S1, G1, JsNumber(Epoch))), <<>>}

Hi == <<"h", "i">>

PaddedYo == <<" ", "y", "o", " ">>

Blank == <<" ", " ">>

\* One character more than the server accepts.
TooLong == [i \in 1..(MaxMessageLength + 1) |-> "x"]

Messages == {PaddedYo, <<>>, Blank, TooLong}

\* CodecSpec: session and group ids that hold the token's delimiter '_' or
\* the signature's delimiter ':'.
IdA == <<"a">>

IdAColonB == <<"a", ":", "b">>

IdUnder == <<"a", "_", "b">>

GroupLong == <<"b", ":", "c", "_">>

GroupShort == <<"c", "_">>

CodecSessionIds == {IdA, IdAColonB, IdUnder}

CodecCreateRequests ==
  {<<IdA, GroupLong, JsUndefined>>, <<IdUnder, GroupShort, JsUndefined>>,
   <<IdA, <<>>, JsUndefined>>}

\* The tokens of those requests, the token create would issue for (a:b, c_),
\* and altered tokens.
TokenA == EncodeToken(IdA, GroupLong, JsNumber(Epoch))

TokenAColonB == EncodeToken(IdAColonB, GroupShort, JsNumber(Epoch))

TokenUnder == EncodeToken(IdUnder, GroupShort, JsNumber(Epoch))

AlteredTokens ==
  {Garbled(TokenA), WithExtraField(TokenA), WithoutSignature(TokenA),
   Postdated(TokenA), Unpadded(TokenA)}

CodecTokens == {TokenA, TokenAColonB, TokenUnder, <<>>} \cup AlteredTokens

CodecMessages == {Hi, <<>>}

\* ClockSpec: one session, the clock running past the tokens' lifetime, and
\* a createdAt that the caller supplies: an hour ahead of the first instant,
\* or not a number.
HourAhead == JsNumber(Epoch + 6 * TickMs)

NotANumber == JsString(<<"x">>)

ClockSessionIds == {S1}

ClockCreateRequests ==
  {<<S1, G1, JsUndefined>>, <<S1, G1, HourAhead>>, <<S1, G1, NotANumber>>,
   <<<<>>, G1, JsUndefined>>}

\* The tokens create can issue for these requests.
IssuableTokens ==
  {EncodeToken(S1, G1, c) : c \in {JsNumber(t) : t \in Times} \cup {HourAhead, NotANumber}}

\* The tokens status and submit are sent: those of the first two instants, those
\* of the createdAt the caller supplied, and the empty token.
ClockTokens ==
  {EncodeToken(S1, G1, JsNumber(t)) : t \in {Epoch, Epoch + TickMs}}
    \cup {EncodeToken(S1, G1, HourAhead), EncodeToken(S1, G1, NotANumber), <<>>}

ClockMessages == {Hi, <<>>}

\* FrameSpec: one session that is created, a second id that never is, the
\* clock running; the token of the session, a token of a process before for
\* the same id and another group, and a token with an altered signature.
FrameSessionIds == {S1, S2}

FrameCreateRequests == {<<S1, G1, JsUndefined>>}

FrameTokens ==
  {EncodeToken(S1, G1, JsNumber(Epoch)), EncodeToken(S1, G2, JsNumber(Epoch)),
   Garbled(EncodeToken(S1, G1, JsNumber(Epoch)))}

FrameMessages == {Hi}

\* Everything a handler of the model is asked to decode or to issue.
KnownTokens ==
  Tokens \cup CodecTokens \cup ClockTokens \cup IssuableTokens \cup FrameTokens

KnownIssues ==
  {<<r[1], r[2], c>> :
     r \in CreateRequests \cup CodecCreateRequests \cup ClockCreateRequests
             \cup FrameCreateRequests,
     c \in {JsNumber(t) : t \in Times} \cup {HourAhead, NotANumber}}

\* The decoding of the tokens of the model, computed once: what DecodeToken
\* returns does not depend on the state.
DecodedTokens == [tk \in KnownTokens |-> DecodeToken(tk)]

Decoded(token) == DecodedTokens[token]

\* Likewise the tokens create issues.
IssuedTokens == [k \in KnownIssues |-> EncodeToken(k[1], k[2], k[3])]

Issued(sessionId, groupJid, timestamp) == IssuedTokens[<<sessionId, groupJid, timestamp>>]

\* `age > TWENTY_MINUTES`: every comparison with NaN is false.
TooOld(t, clock) == t.kind = "number" /\ clock - t.num > TWENTY_MINUTES

Expired(createdAt, clock) == TooOld(ParseIntOf(createdAt), clock)

\* validateSessionToken without its look at the ended-set: what C1 rules out.
ValidateDecodedIgnoringEnded(d, ended, clock) ==
  IF ~d.valid THEN Null
  ELSE IF Expired(d.createdAt, clock) THEN Null
  ELSE SessionData(d.sessionId, d.groupJid, ParseIntOf(d.createdAt))

\* The checks of validateSessionToken that read the ended-set and Date.now().
ValidateDecoded(d, ended, clock) ==
  IF ~d.valid THEN Null
  ELSE IF d.sessionId \in ended THEN Null
  ELSE IF Expired(d.createdAt, clock) THEN Null
  ELSE SessionData(d.sessionId, d.groupJid, ParseIntOf(d.createdAt))

ValidateAt(token, ended, clock) == ValidateDecoded(Decoded(token), ended, clock)

(***************************************************************************)
(* State                                                                   *)
(***************************************************************************)

VARIABLES
  sessions,       \* Map: session id -> {groupJid, active, createdAt, messageCount, lastActivity}
  messageQueues,  \* Map: session id -> array of {number, message, timestamp}
  endedSessions,  \* Set of session ids
  now,            \* Date.now()
  res,            \* the last response sent, with the handler and the time it was sent
  endCalled,      \* history: the ids for which /api/session/end answered success
  returned        \* history: session id -> the messageNumbers submit has answered

vars == <<sessions, messageQueues, endedSessions, now, res, endCalled, returned>>

\* Map.prototype.set
MapSet(m, k, v) == [x \in (DOMAIN m) \cup {k} |-> IF x = k THEN v ELSE m[x]]

\* Map.prototype.has
Has(m, k) == k \in DOMAIN m

\* The messageNumbers the successful submits of a session id have answered.
Returned(id) == IF Has(returned, id) THEN returned[id] ELSE {}

EmptyMap == [x \in {} |-> 0]

validateSessionToken(token) == ValidateAt(token, endedSessions, now)

\* A response: the handler that sent it, the HTTP status, the error (if any)
\* and the JSON fields of the success bodies; `at` is the time it was sent,
\* and `token` the token create issued or the token status or submit was
\* sent with.
Response(op, status, error) ==
  [op |-> op, status |-> status, error |-> error, at |-> now,
   sessionId |-> <<>>, token |-> <<>>,
   active |-> FALSE, exists |-> FALSE, messageCount |-> 0,
   messageNumber |-> 0, messages |-> <<>>]

NewSession(groupJid, createdAt, lastActivity) ==
  [groupJid |-> groupJid, active |-> TRUE, createdAt |-> createdAt,
   messageCount |-> 0, lastActivity |-> lastActivity]

Init ==
  /\ sessions = EmptyMap
  /\ messageQueues = EmptyMap
  /\ endedSessions = {}
  /\ now = Epoch
  /\ res = [Response("none", 0, "") EXCEPT !.at = 0]
  /\ endCalled = {}
  /\ returned = EmptyMap

(***************************************************************************)
(* Request handlers.  `\E x \in {e} : ...` binds x to e, as `const x = e`. *)
(***************************************************************************)

\* const timestamp = createdAt || Date.now();
Timestamp(createdAt) == IF Truthy(createdAt) THEN createdAt ELSE JsNumber(now)

\* res.status(400).json({error}) and the like: the store is left alone.
Reject(op, token, status, error) ==
  /\ res' = [Response(op, status, error) EXCEPT !.token = token]
  /\ UNCHANGED <<sessions, messageQueues, endedSessions, now, endCalled, returned>>

\* A create that leaves the queue of the id as it finds it: what C15 rules
\* out.
CreateSessionKeepingQueue(sessionId, groupJid, timestamp) ==
  /\ sessions' = MapSet(sessions, sessionId, NewSession(groupJid, timestamp, timestamp))
  /\ res' = [Response("create", 200, "") EXCEPT
               !.sessionId = sessionId,
               !.token = Issued(sessionId, groupJid, timestamp)]
  /\ UNCHANGED <<messageQueues, endedSessions, now, endCalled, returned>>

\* A create that takes the id out of the ended-set: what C18 rules out.
CreateSessionReviving(sessionId, groupJid, timestamp) ==
  /\ sessions' = MapSet(sessions, sessionId, NewSession(groupJid, timestamp, timestamp))
  /\ messageQueues' = MapSet(messageQueues, sessionId, <<>>)
  /\ endedSessions' = endedSessions \ {sessionId}
  /\ res' = [Response("create", 200, "") EXCEPT
               !.sessionId = sessionId,
               !.token = Issued(sessionId, groupJid, timestamp)]
  /\ UNCHANGED <<now, endCalled, returned>>

\* POST /api/session/create, past the check of its fields.
CreateSession(sessionId, groupJid, timestamp) ==
  /\ sessions' = MapSet(sessions, sessionId, NewSession(groupJid, timestamp, timestamp))
  /\ messageQueues' = MapSet(messageQueues, sessionId, <<>>)
  /\ res' = [Response("create", 200, "") EXCEPT
               !.sessionId = sessionId,
               !.token = Issued(sessionId, groupJid, timestamp)]
  /\ UNCHANGED <<endedSessions, now, endCalled, returned>>

\* POST /api/session/create
Create(sessionId, groupJid, createdAt) ==
  IF sessionId = <<>> \/ groupJid = <<>>
    THEN Reject("create", <<>>, 400, "Missing sessionId or groupJid")
    ELSE CreateSession(sessionId, groupJid, Timestamp(createdAt))

\* session.active = false, if the session is there.
Deactivated(m, sessionId) ==
  IF Has(m, sessionId) THEN [m EXCEPT ![sessionId].active = FALSE] ELSE m

\* An end that records the id and leaves the session active: what C11 rules
\* out.
EndWithoutDeactivating(sessionId) ==
  IF sessionId = <<>> THEN Reject("end", <<>>, 400, "Missing sessionId")
  ELSE
    /\ endedSessions' = endedSessions \cup {sessionId}
    /\ res' = [Response("end", 200, "") EXCEPT !.sessionId = sessionId]
    /\ endCalled' = endCalled \cup {sessionId}
    /\ UNCHANGED <<sessions, messageQueues, now, returned>>

\* An end that sets active=false and does not record the id: what C17 rules
\* out.
EndWithoutRecording(sessionId) ==
  IF sessionId = <<>> THEN Reject("end", <<>>, 400, "Missing sessionId")
  ELSE
    /\ sessions' = Deactivated(sessions, sessionId)
    /\ res' = [Response("end", 200, "") EXCEPT !.sessionId = sessionId]
    /\ endCalled' = endCalled \cup {sessionId}
    /\ UNCHANGED <<messageQueues, endedSessions, now, returned>>

\* POST /api/session/end
End(sessionId) ==
  IF sessionId = <<>> THEN Reject("end", <<>>, 400, "Missing sessionId")
  ELSE
    /\ endedSessions' = endedSessions \cup {sessionId}
    /\ sessions' = Deactivated(sessions, sessionId)
    /\ res' = [Response("end", 200, "") EXCEPT !.sessionId = sessionId]
    /\ endCalled' = endCalled \cup {sessionId}
    /\ UNCHANGED <<messageQueues, now, returned>>

\* A reconcile that writes the token's data over a session that is there:
\* what C13 rules out.
ReconciledSessionsOverwriting(sessionData) ==
  MapSet(sessions, sessionData.sessionId,
         NewSession(sessionData.groupJid, sessionData.createdAt, JsNumber(now)))

\* The lazy re-creation of status and submit:
\* if (!sessions.has(id)) { sessions.set(id, {...}); messageQueues.set(id, []); }
ReconciledSessions(sessionData) ==
  IF Has(sessions, sessionData.sessionId) THEN sessions
  ELSE MapSet(sessions, sessionData.sessionId,
              NewSession(sessionData.groupJid, sessionData.createdAt, JsNumber(now)))

ReconciledQueues(sessionData) ==
  IF Has(sessions, sessionData.sessionId) THEN messageQueues
  ELSE MapSet(messageQueues, sessionData.sessionId, <<>>)

\* GET /api/session/:token/status, for a token that validates.
StatusOf(token, id, sessions1, queues1) ==
  /\ sessions' = sessions1
  /\ messageQueues' = queues1
  /\ res' = [Response("status", 200, "") EXCEPT
               !.token = token,
               !.sessionId = id,
               !.active = sessions1[id].active /\ id \notin endedSessions,
               !.exists = TRUE,
               !.messageCount = sessions1[id].messageCount]
  /\ UNCHANGED <<endedSessions, now, endCalled, returned>>

\* A status that does not look at the age of the token: what C12 rules out.
StatusIgnoringAge(token) ==
  \E sessionData \in {ValidateAt(token, endedSessions, Epoch)} :
    IF ~sessionData.valid THEN Reject("status", token, 200, "")
    ELSE StatusOf(token, sessionData.sessionId, ReconciledSessions(sessionData),
                  ReconciledQueues(sessionData))

\* GET /api/session/:token/status
Status(token) ==
  \E sessionData \in {validateSessionToken(token)} :
    IF ~sessionData.valid THEN Reject("status", token, 200, "")
    ELSE StatusOf(token, sessionData.sessionId, ReconciledSessions(sessionData),
                  ReconciledQueues(sessionData))

\* messageQueues.get(id) || []
QueueOf(m, id) == IF Has(m, id) THEN m[id] ELSE <<>>

\* A submit that counts its message and does not queue it: what C14 rules
\* out.
AcceptWithoutPush(token, id, sessions1, queues1, count, text) ==
  /\ count <= MaxMessages
  /\ sessions' = [sessions1 EXCEPT
                    ![id].messageCount = count, ![id].lastActivity = JsNumber(now)]
  /\ messageQueues' = queues1
  /\ res' = [Response("submit", 200, "") EXCEPT
               !.token = token, !.sessionId = id, !.messageNumber = count]
  /\ returned' = MapSet(returned, id, Returned(id) \cup {count})
  /\ UNCHANGED <<endedSessions, now, endCalled>>

\* session.messageCount++ and the push of the message, for a session that is
\* there and active.  The model stops a session at MaxMessages messages.
Accept(token, id, sessions1, queues1, count, text) ==
  /\ count <= MaxMessages
  /\ sessions' = [sessions1 EXCEPT
                    ![id].messageCount = count, ![id].lastActivity = JsNumber(now)]
  /\ messageQueues' =
       MapSet(queues1, id,
              Append(QueueOf(queues1, id),
                     [number |-> count, message |-> text, timestamp |-> now]))
  /\ res' = [Response("submit", 200, "") EXCEPT
               !.token = token, !.sessionId = id, !.messageNumber = count]
  /\ returned' = MapSet(returned, id, Returned(id) \cup {count})
  /\ UNCHANGED <<endedSessions, now, endCalled>>

\* POST /api/message/submit, from `if (!session.active)` on: the session was
\* reconciled before.
SubmitTo(token, id, sessions1, queues1, message) ==
  IF ~sessions1[id].active THEN
    /\ sessions' = sessions1
    /\ messageQueues' = queues1
    /\ res' = [Response("submit", 403, "Session has ended") EXCEPT
                 !.token = token, !.sessionId = id]
    /\ UNCHANGED <<endedSessions, now, endCalled, returned>>
  ELSE Accept(token, id, sessions1, queues1, sessions1[id].messageCount + 1,
              Trim(message))

\* POST /api/message/submit, from the validation of the token on.
SubmitValidated(token, sessionData, message) ==
  IF ~sessionData.valid
    THEN Reject("submit", token, 403, "Session has ended or expired")
  ELSE IF sessionData.sessionId \in endedSessions
    THEN Reject("submit", token, 403, "Session has ended")
  ELSE SubmitTo(token, sessionData.sessionId, ReconciledSessions(sessionData),
                ReconciledQueues(sessionData), message)

\* A submit without the limit on the length of the message: what C8 rules out.
SubmitAnyLength(sessionToken, message) ==
  IF sessionToken = <<>> \/ message = <<>>
    THEN Reject("submit", sessionToken, 400, "Missing sessionToken or message")
  ELSE IF Len(Trim(message)) = 0
    THEN Reject("submit", sessionToken, 400, "Message cannot be empty")
  ELSE \E sessionData \in {validateSessionToken(sessionToken)} :
         SubmitValidated(sessionToken, sessionData, message)

\* POST /api/message/submit
Submit(sessionToken, message) ==
  IF sessionToken = <<>> \/ message = <<>>
    THEN Reject("submit", sessionToken, 400, "Missing sessionToken or message")
  ELSE IF Len(Trim(message)) = 0
    THEN Reject("submit", sessionToken, 400, "Message cannot be empty")
  ELSE IF Len(message) > MaxMessageLength
    THEN Reject("submit", sessionToken, 400, "Message too long (max 1000 characters)")
  ELSE \E sessionData \in {validateSessionToken(sessionToken)} :
         SubmitValidated(sessionToken, sessionData, message)

\* A poll that hands the queue out and leaves it in place: what C3 rules out.
PollKeepingQueue(sessionId) ==
  /\ res' = [Response("poll", 200, "") EXCEPT
               !.sessionId = sessionId,
               !.messages = QueueOf(messageQueues, sessionId)]
  /\ UNCHANGED <<sessions, messageQueues, endedSessions, now, endCalled, returned>>

\* A poll that empties every queue: what C20 rules out.
PollClearingAll(sessionId) ==
  /\ messageQueues' = [id \in (DOMAIN messageQueues) \cup {sessionId} |-> <<>>]
  /\ res' = [Response("poll", 200, "") EXCEPT
               !.sessionId = sessionId,
               !.messages = QueueOf(messageQueues, sessionId)]
  /\ UNCHANGED <<sessions, endedSessions, now, endCalled, returned>>

\* GET /api/messages/poll/:sessionId
Poll(sessionId) ==
  /\ messageQueues' = MapSet(messageQueues, sessionId, <<>>)
  /\ res' = [Response("poll", 200, "") EXCEPT
               !.sessionId = sessionId,
               !.messages = QueueOf(messageQueues, sessionId)]
  /\ UNCHANGED <<sessions, endedSessions, now, endCalled, returned>>

\* Date.now() advances between requests.
Tick ==
  /\ now < Epoch + MaxTicks * TickMs
  /\ now' = now + TickMs
  /\ UNCHANGED <<sessions, messageQueues, endedSessions, res, endCalled, returned>>

(***************************************************************************)
(* Next-state relation                                                     *)
(***************************************************************************)

Handlers(R, S, T, M) ==
  \/ \E r \in R : Create(r[1], r[2], r[3])
  \/ \E s \in S \cup {<<>>} : End(s)
  \/ \E tk \in T : Status(tk)
  \/ \E tk \in T, m \in M : Submit(tk, m)
  \/ \E s \in S : Poll(s)

\* Requests in quick succession: the clock stands still.
Next == Handlers(CreateRequests, SessionIds, Tokens, Messages)

Spec == Init /\ [][Next]_vars

CodecNext == Handlers(CodecCreateRequests, CodecSessionIds, CodecTokens, CodecMessages)

CodecSpec == Init /\ [][CodecNext]_vars

ClockNext ==
  Handlers(ClockCreateRequests, ClockSessionIds, ClockTokens, ClockMessages) \/ Tick

ClockSpec == Init /\ [][ClockNext]_vars

FrameNext ==
  Handlers(FrameCreateRequests, FrameSessionIds, FrameTokens, FrameMessages) \/ Tick

FrameSpec == Init /\ [][FrameNext]_vars

(***************************************************************************)
(* Properties                                                              *)
(***************************************************************************)

\* The '_'-separated fields of the tokens of the model, computed once.
FieldsOf == [tk \in KnownTokens |-> Split(tk, "_")]

\* The session id a token bears: its first field.
TokenSessionId(tk) == FieldsOf[tk][1]

TooLongError == "Message too long (max 1000 characters)"

EmptyErrors == {"Missing sessionToken or message", "Message cannot be empty"}

\* The messages of Spec that are empty or blank, and those that are not and
\* are longer than the server accepts.
EmptyMessages == {m \in Messages : Len(Trim(m)) = 0}

LongMessages == {m \in Messages \ EmptyMessages : Len(m) > MaxMessageLength}

\* A response of submit that accepted the message.
Accepted(r) == r.op = "submit" /\ r.status = 200

C2_OrdinalsIncrease ==
  [][Accepted(res') =>
       /\ \A n \in Returned(res'.sessionId) : res'.messageNumber > n
       /\ Returned(res'.sessionId) = {} => res'.messageNumber = 1]_vars

\* C3: poll answers the queue of the session as it stands, which submit
\* extends at its end only and which holds increasing numbers, and leaves the
\* queue empty; no request but submit makes a queue longer, so that a second
\* poll with no submit in between answers the empty list.
C3_PollDrainsInOrder ==
  [][/\ res'.op = "poll" =>
          /\ res'.messages = QueueOf(messageQueues, res'.sessionId)
          /\ QueueOf(messageQueues', res'.sessionId) = <<>>
          /\ Has(messageQueues', res'.sessionId)
          /\ \A i, j \in 1..Len(res'.messages) :
               i < j => res'.messages[i].number < res'.messages[j].number
          /\ (res.op = "poll" /\ res.sessionId = res'.sessionId) =>
               res'.messages = <<>>
     /\ Accepted(res') =>
          \E q \in {QueueOf(messageQueues, res'.sessionId)} :
            \E q1 \in {QueueOf(messageQueues', res'.sessionId)} :
              /\ Len(q1) = Len(q) + 1
              /\ SubSeq(q1, 1, Len(q)) = q
     /\ ~Accepted(res') =>
          \A id \in DOMAIN messageQueues' :
            QueueOf(messageQueues', id) \in {QueueOf(messageQueues, id), <<>>}]_vars

\* A poll answered two messages, in the order they were submitted in, and
\* the queue is empty.
C3_Witness ==
  /\ res.op = "poll"
  /\ Len(res.messages) = 2
  /\ res.messages[1].number = 1
  /\ res.messages[1].message = <<"y", "o">>
  /\ res.messages[2].number = 2
  /\ res.messages[2].message = <<"y", "o">>
  /\ messageQueues[res.sessionId] = <<>>
  /\ Returned(res.sessionId) = {1, 2}

\* C4: the token create issues decodes, while it is unexpired and its
\* session id not ended, to the sessionId, groupJid and createdAt it was
\* issued for, whatever characters the ids hold.
C4_RoundTrip ==
  (/\ res.op = "create"
   /\ res.status = 200
   /\ res.sessionId \notin endedSessions
   /\ ~Expired(sessions[res.sessionId].createdAt, now)) =>
    \E session \in {sessions[res.sessionId]} :
      validateSessionToken(res.token) =
        SessionData(res.sessionId, session.groupJid, ParseIntOf(session.createdAt))

\* C5: a token of create no longer validates once more than twenty minutes
\* have passed since it was issued, whatever createdAt the request gave.
C5_ExpiresAfterTwentyMinutes ==
  (res.op = "create" /\ res.status = 200 /\ now - res.at > TWENTY_MINUTES) =>
    ~validateSessionToken(res.token).valid

\* tk differs from the four-field token orig in the number of its fields, in
\* its signature only, or in its other fields only.
AlteredFrom(tk, orig) ==
  \E f \in {FieldsOf[tk]} : \E g \in {FieldsOf[orig]} :
    \/ Len(f) # 4
    \/ Len(f) = 4 /\ SubSeq(f, 1, 3) = SubSeq(g, 1, 3) /\ f[4] # g[4]
    \/ Len(f) = 4 /\ SubSeq(f, 1, 3) # SubSeq(g, 1, 3) /\ f[4] = g[4]

\* C6: every token got from an issued token by altering the signature, the
\* other fields or the number of fields is invalid.
C6_AlteredTokensInvalid ==
  (res.op = "create" /\ res.status = 200 /\ Len(FieldsOf[res.token]) = 4) =>
    \A tk \in CodecTokens :
      AlteredFrom(tk, res.token) => ~validateSessionToken(tk).valid

\* C7: a successful submit answers a messageNumber that no successful submit
\* for the same session id answered before, and its message is the new last
\* entry of the queue.
C7_NoDuplicateOrdinals ==
  [][Accepted(res') =>
       \E q1 \in {QueueOf(messageQueues', res'.sessionId)} :
         /\ res'.messageNumber \notin Returned(res'.sessionId)
         /\ Len(q1) = Len(QueueOf(messageQueues, res'.sessionId)) + 1
         /\ q1[Len(q1)].number = res'.messageNumber]_vars

\* C8: a submit with a token that validates answers 400 with an error about
\* the empty message if the message is empty or blank, and 400 with the
\* too-long error if it is longer than 1000 characters, never 403; a submit
\* answers 200, 400 or 403, and on 400 or 403 no session and no queue has
\* changed.
C8_BadTextRejected ==
  [][res'.op = "submit" =>
       /\ res'.status \in {200, 400, 403}
       /\ res'.status # 200 => sessions' = sessions /\ messageQueues' = messageQueues
       /\ validateSessionToken(res'.token).valid =>
            /\ \A m \in EmptyMessages :
                 Submit(res'.token, m) =>
                   res'.status = 400 /\ res'.error \in EmptyErrors
            /\ \A m \in LongMessages :
                 Submit(res'.token, m) =>
                   res'.status = 400 /\ res'.error = TooLongError]_vars

\* A submit with the valid token of an active session that holds a message
\* was answered 400, too long; the session's message is still queued.
C8_Witness ==
  /\ res.op = "submit"
  /\ res.status = 400
  /\ res.error = TooLongError
  /\ validateSessionToken(res.token).valid
  /\ \E id \in {TokenSessionId(res.token)} :
       /\ Has(sessions, id)
       /\ sessions[id].active
       /\ sessions[id].messageCount = 1
       /\ Len(messageQueues[id]) = 1

\* C9: no request takes the stored messageCount of a session id down.
C9_MessageCountOnlyIncreases ==
  [][\A id \in DOMAIN sessions :
       /\ Has(sessions', id)
       /\ sessions'[id].messageCount >= sessions[id].messageCount]_vars

\* C10: no request changes the createdAt of a session id that has an
\* entry in the store.
C10_CreatedAtImmutable ==
  [][\A id \in DOMAIN sessions :
       /\ Has(sessions', id)
       /\ sessions'[id].createdAt = sessions[id].createdAt]_vars

\* C11: end answers success for every non-empty id; it adds the id to the
\* ended-set, sets active=false in the session of that id if there is one,
\* and changes nothing else: no session or queue entry appears, so that for an
\* id never created only the ended-set changes; an end for an id that is ended
\* and not active, as it is right after an end for it, leaves the state as it
\* is.
C11_EndIdempotent ==
  [][\A s \in SessionIds :
       (res'.op = "end" /\ End(s)) =>
         /\ res'.status = 200
         /\ endedSessions' = endedSessions \cup {s}
         /\ messageQueues' = messageQueues
         /\ DOMAIN sessions' = DOMAIN sessions
         /\ \A id \in DOMAIN sessions :
              sessions'[id] = IF id = s THEN [sessions[id] EXCEPT !.active = FALSE]
                              ELSE sessions[id]
         /\ (res.op = "end" /\ res.status = 200 /\ res.sessionId = s) =>
              UNCHANGED <<sessions, messageQueues, endedSessions>>
         /\ (s \in endedSessions /\ (Has(sessions, s) => ~sessions[s].active)) =>
              UNCHANGED <<sessions, messageQueues, endedSessions>>]_vars

\* s1 was created, got a message and was ended; then s2, never created, was
\* ended: it is in the ended-set and has neither a session nor a queue.
C11_Witness ==
  /\ res.op = "end"
  /\ res.status = 200
  /\ res.sessionId = S2
  /\ S2 \in endedSessions
  /\ ~Has(sessions, S2)
  /\ ~Has(messageQueues, S2)
  /\ S1 \in endedSessions
  /\ Has(sessions, S1)
  /\ ~sessions[S1].active
  /\ Len(QueueOf(messageQueues, S1)) = 1

\* C12: status always answers 200 without an error; for a token that does
\* not validate (signature altered, expired, or id ended) it answers
\* active:false and exists:false and leaves sessions, queues and ended-set as
\* they are; for a token that validates it answers exists:true and the
\* messageCount stored for the session of the token.
C12_StatusNeverErrors ==
  [][\A tk \in FrameTokens :
       (res'.op = "status" /\ res'.token = tk /\ Status(tk)) =>
         /\ res'.status = 200
         /\ res'.error = ""
         /\ IF validateSessionToken(tk).valid
              THEN \E id \in {validateSessionToken(tk).sessionId} :
                     /\ res'.exists
                     /\ Has(sessions', id)
                     /\ res'.messageCount = sessions'[id].messageCount
                     /\ Has(sessions, id) =>
                          res'.messageCount = sessions[id].messageCount
              ELSE /\ ~res'.exists
                   /\ ~res'.active
                   /\ UNCHANGED <<sessions, messageQueues, endedSessions>>]_vars

\* The status of a rightly signed token of s1, which is not ended, answered
\* exists:false because the token had expired; the session holds a message.
C12_Witness ==
  /\ res.op = "status"
  /\ res.status = 200
  /\ ~res.exists
  /\ Decoded(res.token).valid
  /\ Expired(Decoded(res.token).createdAt, res.at)
  /\ S1 \notin endedSessions
  /\ Has(sessions, S1)
  /\ sessions[S1].messageCount = 1
  /\ Len(QueueOf(messageQueues, S1)) = 1

\* The session status and submit find or make for the valid token data d,
\* before submit counts its message.
C13_Expected(d) ==
  IF Has(sessions, d.sessionId) THEN sessions[d.sessionId]
  ELSE [groupJid |-> d.groupJid, active |-> TRUE, createdAt |-> d.createdAt,
        messageCount |-> 0, lastActivity |-> JsNumber(now)]

\* C13: a status or an accepted submit with a valid token whose session id
\* is absent from the store leaves a session with the groupJid and createdAt
\* of the token, active, with messageCount 0 and an empty queue (1 and the one
\* message, once submit has counted it); if the session id is present, its
\* groupJid, createdAt and active stay as stored and its messageCount is the
\* stored one (plus one for the submit), whatever the token carries.
C13_Reconcile ==
  [][\A tk \in FrameTokens :
       \E d \in {validateSessionToken(tk)} :
         /\ (d.valid /\ res'.op = "status" /\ res'.token = tk /\ Status(tk)) =>
              /\ Has(sessions', d.sessionId)
              /\ sessions'[d.sessionId] = C13_Expected(d)
              /\ Has(messageQueues', d.sessionId)
              /\ messageQueues'[d.sessionId] =
                   IF Has(sessions, d.sessionId) THEN messageQueues[d.sessionId]
                   ELSE <<>>
         /\ (d.valid /\ Accepted(res') /\ res'.token = tk
               /\ \E m \in FrameMessages : Submit(tk, m)) =>
              /\ Has(sessions', d.sessionId)
              /\ sessions'[d.sessionId] =
                   [C13_Expected(d) EXCEPT
                      !.messageCount = C13_Expected(d).messageCount + 1,
                      !.lastActivity = JsNumber(now)]
              /\ Len(messageQueues'[d.sessionId]) =
                   IF Has(sessions, d.sessionId)
                     THEN Len(messageQueues[d.sessionId]) + 1
                     ELSE 1]_vars

\* s1 was made by reconcile from the token of group g2 (create makes it for
\* g1 only) and got a message; a status with the token of group g1, issued at
\* the first instant, found it and left its group and count as they were.
C13_Witness ==
  /\ res.op = "status"
  /\ res.exists
  /\ res.token = Issued(S1, G1, JsNumber(Epoch))
  /\ res.messageCount = 1
  /\ Has(sessions, S1)
  /\ sessions[S1].groupJid = G2
  /\ sessions[S1].messageCount = 1
  /\ sessions[S1].createdAt = JsNumber(Epoch)
  /\ sessions[S1].lastActivity.num > Epoch

\* C14: submit and poll are each one step.  A poll answers exactly the
\* messages queued at that moment and none of them stays queued, so no later
\* poll answers one of them again, and it touches no count; an accepted submit
\* raises the count of its session by one and puts exactly its message, with
\* that count as number, at the end of the queue, where the next poll finds
\* it: a message is never counted and missing, nor answered and still queued.
C14_SubmitPollAtomic ==
  [][/\ \A s \in SessionIds :
          (res'.op = "poll" /\ res'.sessionId = s /\ Poll(s)) =>
            /\ res'.messages = QueueOf(messageQueues, s)
            /\ messageQueues'[s] = <<>>
            /\ sessions' = sessions
     /\ Accepted(res') =>
          \E id \in {res'.sessionId} :
            \E m \in Messages :
              /\ Submit(res'.token, m)
              /\ res'.messageNumber =
                   (IF Has(sessions, id) THEN sessions[id].messageCount ELSE 0) + 1
              /\ sessions'[id].messageCount = res'.messageNumber
              /\ messageQueues'[id] =
                   Append(QueueOf(messageQueues, id),
                          [number |-> res'.messageNumber, message |-> Trim(m),
                           timestamp |-> now])]_vars

\* A poll answered message 2 alone: message 1 of the same session (its count
\* is 2) went out with an earlier poll and is not answered again.
C14_Witness ==
  /\ res.op = "poll"
  /\ Len(res.messages) = 1
  /\ res.messages[1].number = 2
  /\ Has(sessions, res.sessionId)
  /\ sessions[res.sessionId].messageCount = 2
  /\ messageQueues[res.sessionId] = <<>>

\* C15: in every state the numbers of the messages in a queue are at least
\* 1 and go up by one from each entry to the next, and the last of them is at
\* most the messageCount stored for the session; right after an accepted
\* submit it is that messageCount, and the messageNumber answered.
C15_QueueOrdinals ==
  /\ \A id \in DOMAIN messageQueues :
       \E q \in {messageQueues[id]} :
         /\ \A i \in 1..Len(q) : q[i].number >= 1
         /\ \A i \in 1..(Len(q) - 1) : q[i + 1].number = q[i].number + 1
         /\ Len(q) > 0 =>
              /\ Has(sessions, id)
              /\ q[Len(q)].number <= sessions[id].messageCount
  /\ Accepted(res) =>
       \E q \in {QueueOf(messageQueues, res.sessionId)} :
         /\ Len(q) > 0
         /\ q[Len(q)].number = res.messageNumber
         /\ sessions[res.sessionId].messageCount = res.messageNumber

\* Right after the second accepted submit of a session its queue holds the
\* messages 1 and 2 and its count is 2.
C15_Witness ==
  /\ Accepted(res)
  /\ res.messageNumber = 2
  /\ Len(messageQueues[res.sessionId]) = 2
  /\ messageQueues[res.sessionId][1].number = 1
  /\ messageQueues[res.sessionId][2].number = 2
  /\ sessions[res.sessionId].messageCount = 2

\* C16: no request but poll takes a message out of a queue: over every
\* create, end, status and submit each queue keeps the messages it held, in
\* their places.
C16_OnlyPollRemoves ==
  [][res'.op # "poll" =>
       \A id \in DOMAIN messageQueues :
         \E q \in {messageQueues[id]} :
           /\ Has(messageQueues', id)
           /\ Len(messageQueues'[id]) >= Len(q)
           /\ SubSeq(messageQueues'[id], 1, Len(q)) = q]_vars

\* Every stored session that is not active has its id in the ended-set.
C17_Inactive(ss, ended) == \A id \in DOMAIN ss : ~ss[id].active => id \in ended

\* C17: every stored session with active=false has its id in the ended-set,
\* before and after every request; the ended-set never loses an element; and
\* a status that answers exists:true answers active:true.
C17_InactiveIsEnded ==
  [][/\ C17_Inactive(sessions, endedSessions)
     /\ C17_Inactive(sessions', endedSessions')
     /\ endedSessions \subseteq endedSessions'
     /\ (res'.op = "status" /\ res'.exists) => res'.active]_vars

\* s1 is stored, not active and ended, with a message still queued; s2 is
\* stored and its status answered exists:true, active:true.
C17_Witness ==
  /\ Has(sessions, S1)
  /\ ~sessions[S1].active
  /\ S1 \in endedSessions
  /\ Len(QueueOf(messageQueues, S1)) = 1
  /\ res.op = "status"
  /\ res.exists
  /\ res.active
  /\ res.sessionId = S2

\* What the tokens of ClockSpec, sent or issued, decode to.
C18_Decoded == {Decoded(tk) : tk \in IssuableTokens \cup ClockTokens}

\* C18: over every request and every advance of the clock, a token that
\* does not validate before the step does not validate after it.  (What a
\* token validates to is a function of the ended-set and the clock, so a step
\* that changes neither has nothing to show.)
C18_ValidityMonotone ==
  [][(endedSessions' # endedSessions \/ now' # now) =>
       \A d \in C18_Decoded :
         ~ValidateDecoded(d, endedSessions, now).valid =>
           ~ValidateDecoded(d, endedSessions', now').valid]_vars

\* s1 was ended and then created again: the token that create issued is
\* rightly signed and does not validate; the token of the first instant has
\* expired as well.
C18_Witness ==
  /\ res.op = "create"
  /\ res.status = 200
  /\ res.sessionId = S1
  /\ S1 \in endedSessions
  /\ sessions[S1].active
  /\ Decoded(res.token).valid
  /\ ~validateSessionToken(res.token).valid
  /\ Expired(JsNumber(Epoch), now)

\* C19: when submit accepts a message, the stored session of the token's
\* session id has the groupJid that the token decodes to.
C19_GroupBinding ==
  [][Accepted(res') =>
       sessions'[res'.sessionId].groupJid = Decoded(res'.token).groupJid]_vars

\* C20: a poll, which takes a session id and no token, answers the queue of
\* that id whether or not the session is ended or its token expired, and
\* changes nothing but that queue: the sessions, the ended-set and the queue of
\* every other id stay as they are; for an id without a session it answers the
\* empty list and adds no session.
C20_PollFrame ==
  [][\A s \in FrameSessionIds :
       (res'.op = "poll" /\ res'.sessionId = s /\ Poll(s)) =>
         /\ res'.status = 200
         /\ res'.messages = QueueOf(messageQueues, s)
         /\ sessions' = sessions
         /\ endedSessions' = endedSessions
         /\ DOMAIN messageQueues' = (DOMAIN messageQueues) \cup {s}
         /\ \A id \in (DOMAIN messageQueues) \ {s} :
              messageQueues'[id] = messageQueues[id]
         /\ ~Has(sessions, s) => res'.messages = <<>> /\ ~Has(sessions', s)]_vars

\* A poll of s1 answered the message queued before s1 was ended, more than
\* twenty minutes after s1 was created; s2 was polled and has no session.
C20_Witness ==
  /\ res.op = "poll"
  /\ res.sessionId = S1
  /\ Len(res.messages) = 1
  /\ S1 \in endedSessions
  /\ ~sessions[S1].active
  /\ Expired(sessions[S1].createdAt, res.at)
  /\ messageQueues[S1] = <<>>
  /\ Has(messageQueues, S2)
  /\ ~Has(sessions, S2)

==========================================================================
